---------------------------- MODULE Spec2Model ----------------------------
(***************************************************************************)
(* Model of the ROS2 CSI camera publisher node                             *)
(* src/camera_capture/camera_capture/camera_capture.py (CameraPublisher).  *)
(*                                                                         *)
(* The node owns one cv2.VideoCapture handle and reacts to three kinds of  *)
(* callbacks dispatched one at a time by the rclpy executor:               *)
(*   - start_livestream_callback (Bool message on the livestream topic),   *)
(*   - timer_callback            (a tick of a timer made by create_timer), *)
(*   - capture_snapshot_callback (Bool message on the snapshot topic).     *)
(* capture_snapshot_callback touches the device, the disk and the          *)
(* publisher one statement after the other, so it is modelled statement by *)
(* statement with a program counter; no other callback is dispatched while *)
(* the counter is inside the handler.                                      *)
(***************************************************************************)
EXTENDS Naturals, Integers, Sequences, FiniteSets, TLC

VARIABLES
    isOpen,              \* self.cap.isOpened()
    resolution,          \* resolution last requested with self.cap.set(...)
    timers,              \* number of live timers bound to timer_callback
    image_counter,       \* self.image_counter
    files,               \* names of the files present in image_location
    pub_cam_snapshot,    \* messages published on the snapshot topic
    pub_cam_livestream,  \* messages published on the livestream topic
    pc,                  \* position of the executor / of the running handler
    last                 \* the callback dispatched most recently

vars ==
    << isOpen, resolution, timers, image_counter, files,
       pub_cam_snapshot, pub_cam_livestream, pc, last >>

(***************************************************************************)
(* Bounds of the model.                                                    *)
(***************************************************************************)
MaxImages ==
    11

(* largest image number of a directory handed to the eviction on its own *)
MaxDirImage ==
    6

MaxTimers ==
    2

MaxFrames ==
    3

(***************************************************************************)
(* Resolutions.  The pipeline opens the sensor at 1920x1080; the two       *)
(* capture resolutions come from the settings file and are kept symbolic.  *)
(***************************************************************************)
PipelineResolution ==
    "pipeline"

LivestreamResolution ==
    "capture_livestream"

SnapshotResolution ==
    "capture_snapshot"

(***************************************************************************)
(* Python's str() on a non-negative int: its decimal digits.               *)
(***************************************************************************)
Digit(d) ==
    << "0", "1", "2", "3", "4", "5", "6", "7", "8", "9" >>[d + 1]

RECURSIVE Str(_)
Str(n) ==
    IF n < 10 THEN Digit(n) ELSE Str(n \div 10) \o Digit(n % 10)

(* f"{image_location}/image{n}.jpg", relative to image_location *)
ImagePath(n) ==
    "image" \o Str(n) \o ".jpg"

(* sensor_msgs Image as built by cv2_to_imgmsg: header.frame_id is empty *)
cv2_to_imgmsg ==
    [frame_id |-> ""]

(***************************************************************************)
(* prevent_overflood_image(img_number), as a function of the directory.    *)
(***************************************************************************)
prevent_overflood_image_gt5(img_number, dir) ==
    IF img_number > 5
    THEN LET item_to_delete == ImagePath(img_number - 5)
         IN  IF item_to_delete \in dir THEN dir \ {item_to_delete} ELSE dir
    ELSE dir

prevent_overflood_image_latest(img_number, dir) ==
    IF img_number > 4
    THEN LET item_to_delete == ImagePath(img_number - 4)
         IN  IF item_to_delete \in dir THEN dir \ {item_to_delete} ELSE dir
    ELSE dir

prevent_overflood_image_oldest(img_number, dir) ==
    IF img_number > 4
    THEN LET present == {i \in 0..img_number : ImagePath(i) \in dir}
         IN  IF present = {}
             THEN dir
             ELSE dir \ {ImagePath(CHOOSE i \in present :
                                      \A j \in present : i <= j)}
    ELSE dir

prevent_overflood_image(img_number, dir) ==
    IF img_number > 4
    THEN LET item_to_delete == ImagePath(img_number - 5)
         IN  IF item_to_delete \in dir THEN dir \ {item_to_delete} ELSE dir
    ELSE dir

(***************************************************************************)
(* CameraPublisher.__init__: the capture may or may not have opened.       *)
(***************************************************************************)
Init ==
    /\ isOpen \in BOOLEAN
    /\ resolution = PipelineResolution
    /\ timers = 0
    /\ image_counter = 0
    /\ files = {}
    /\ pub_cam_snapshot = << >>
    /\ pub_cam_livestream = << >>
    /\ pc = "idle"
    /\ last = "none"

(***************************************************************************)
(* start_livestream_callback(topic_msg).  The timer made by create_timer   *)
(* is kept only in a local variable, so the stop branch always finds the   *)
(* local unbound and handles UnboundLocalError: nothing is cancelled.      *)
(***************************************************************************)
start_livestream_callback_truthy(data) ==
    /\ pc = "idle"
    /\ resolution' = LivestreamResolution
    /\ last' = IF data THEN "livestream_true" ELSE "livestream_false"
    /\ IF isOpen
       THEN /\ timers < MaxTimers
            /\ timers' = timers + 1
       ELSE timers' = timers
    /\ UNCHANGED << isOpen, image_counter, files, pub_cam_snapshot,
                    pub_cam_livestream, pc >>

start_livestream_callback_unchecked(data) ==
    /\ pc = "idle"
    /\ resolution' = LivestreamResolution
    /\ last' = IF data THEN "livestream_true" ELSE "livestream_false"
    /\ IF data
       THEN /\ timers < MaxTimers
            /\ timers' = timers + 1
       ELSE timers' = timers
    /\ UNCHANGED << isOpen, image_counter, files, pub_cam_snapshot,
                    pub_cam_livestream, pc >>

start_livestream_callback_keepsResolution(data) ==
    /\ pc = "idle"
    /\ resolution' = resolution
    /\ last' = IF data THEN "livestream_true" ELSE "livestream_false"
    /\ IF isOpen
       THEN IF data
            THEN /\ timers < MaxTimers
                 /\ timers' = timers + 1
            ELSE timers' = timers
       ELSE timers' = timers
    /\ UNCHANGED << isOpen, image_counter, files, pub_cam_snapshot,
                    pub_cam_livestream, pc >>

start_livestream_callback(data) ==
    /\ pc = "idle"
    /\ resolution' = LivestreamResolution
    /\ last' = IF data THEN "livestream_true" ELSE "livestream_false"
    /\ IF isOpen
       THEN IF data
            THEN /\ timers < MaxTimers
                 /\ timers' = timers + 1
            ELSE timers' = timers
       ELSE timers' = timers
    /\ UNCHANGED << isOpen, image_counter, files, pub_cam_snapshot,
                    pub_cam_livestream, pc >>

(***************************************************************************)
(* timer_callback, run once for a tick of any live timer.  A failed read   *)
(* yields frame None, on which cv2_to_imgmsg raises; nothing catches it.   *)
(***************************************************************************)
timer_callback_stamped ==
    /\ pc = "idle"
    /\ timers > 0
    /\ Len(pub_cam_livestream) < MaxFrames
    /\ last' = "timer"
    /\ \E ret \in BOOLEAN :
          IF ret
          THEN /\ pub_cam_livestream' =
                     Append(pub_cam_livestream,
                            [cv2_to_imgmsg EXCEPT !.frame_id = Str(image_counter)])
               /\ pc' = "idle"
          ELSE /\ pub_cam_livestream' = pub_cam_livestream
               /\ pc' = "crashed"
    /\ UNCHANGED << isOpen, resolution, timers, image_counter, files,
                    pub_cam_snapshot >>

timer_callback ==
    /\ pc = "idle"
    /\ timers > 0
    /\ Len(pub_cam_livestream) < MaxFrames
    /\ last' = "timer"
    /\ \E ret \in BOOLEAN :
          IF ret
          THEN /\ pub_cam_livestream' = Append(pub_cam_livestream, cv2_to_imgmsg)
               /\ pc' = "idle"
          ELSE /\ pub_cam_livestream' = pub_cam_livestream
               /\ pc' = "crashed"
    /\ UNCHANGED << isOpen, resolution, timers, image_counter, files,
                    pub_cam_snapshot >>

(***************************************************************************)
(* capture_snapshot_callback(topic_msg), statement by statement.           *)
(***************************************************************************)
(* lines 130-140 and 149-150: request the snapshot resolution, test isOpened *)
CaptureBegin_unchecked(data) ==
    /\ pc = "idle"
    /\ image_counter < MaxImages
    /\ last' = IF data THEN "snapshot_true" ELSE "snapshot_false"
    /\ resolution' = SnapshotResolution
    /\ pc' = "read"
    /\ UNCHANGED << isOpen, timers, image_counter, files, pub_cam_snapshot,
                    pub_cam_livestream >>

CaptureBegin_pausesLivestream(data) ==
    /\ pc = "idle"
    /\ image_counter < MaxImages
    /\ last' = IF data THEN "snapshot_true" ELSE "snapshot_false"
    /\ resolution' = SnapshotResolution
    /\ pc' = IF isOpen THEN "read" ELSE "restore"
    /\ timers' = 0
    /\ UNCHANGED << isOpen, image_counter, files, pub_cam_snapshot,
                    pub_cam_livestream >>

CaptureBegin(data) ==
    /\ pc = "idle"
    /\ image_counter < MaxImages
    /\ last' = IF data THEN "snapshot_true" ELSE "snapshot_false"
    /\ resolution' = SnapshotResolution
    /\ pc' = IF isOpen THEN "read" ELSE "restore"
    /\ UNCHANGED << isOpen, timers, image_counter, files, pub_cam_snapshot,
                    pub_cam_livestream >>

(* lines 141-143: read a frame and convert it; the conversion raises on None *)
CaptureRead ==
    /\ pc = "read"
    /\ \E ret \in BOOLEAN :
          pc' = IF ret THEN "imwrite" ELSE "crashed"
    /\ UNCHANGED << isOpen, resolution, timers, image_counter, files,
                    pub_cam_snapshot, pub_cam_livestream, last >>

CaptureWrite_nextName ==
    /\ pc = "imwrite"
    /\ files' = files \cup {ImagePath(image_counter + 1)}
    /\ pc' = "publish"
    /\ UNCHANGED << isOpen, resolution, timers, image_counter,
                    pub_cam_snapshot, pub_cam_livestream, last >>

(* line 144: cv2.imwrite(image{image_counter}.jpg) *)
CaptureWrite ==
    /\ pc = "imwrite"
    /\ files' = files \cup {ImagePath(image_counter)}
    /\ pc' = "publish"
    /\ UNCHANGED << isOpen, resolution, timers, image_counter,
                    pub_cam_snapshot, pub_cam_livestream, last >>

(* lines 143 and 146: publish the message stamped with str(image_counter) *)
CapturePublish ==
    /\ pc = "publish"
    /\ pub_cam_snapshot' =
          Append(pub_cam_snapshot,
                 [cv2_to_imgmsg EXCEPT !.frame_id = Str(image_counter)])
    /\ pc' = "increment"
    /\ UNCHANGED << isOpen, resolution, timers, image_counter, files,
                    pub_cam_livestream, last >>

(* line 147: self.image_counter += 1 *)
CaptureIncrement_missing ==
    /\ pc = "increment"
    /\ image_counter' = image_counter
    /\ pc' = "evict"
    /\ UNCHANGED << isOpen, resolution, timers, files, pub_cam_snapshot,
                    pub_cam_livestream, last >>

CaptureIncrement ==
    /\ pc = "increment"
    /\ image_counter' = image_counter + 1
    /\ pc' = "evict"
    /\ UNCHANGED << isOpen, resolution, timers, files, pub_cam_snapshot,
                    pub_cam_livestream, last >>

(* line 148: prevent_overflood_image(self.image_counter) *)
CaptureEvict ==
    /\ pc = "evict"
    /\ files' = prevent_overflood_image(image_counter, files)
    /\ pc' = "restore"
    /\ UNCHANGED << isOpen, resolution, timers, image_counter,
                    pub_cam_snapshot, pub_cam_livestream, last >>

(* lines 151-156: request the livestream resolution again and return *)
CaptureRestore_ifOpened ==
    /\ pc = "restore"
    /\ resolution' = IF isOpen THEN LivestreamResolution ELSE resolution
    /\ pc' = "idle"
    /\ UNCHANGED << isOpen, timers, image_counter, files, pub_cam_snapshot,
                    pub_cam_livestream, last >>

CaptureRestore_missing ==
    /\ pc = "restore"
    /\ resolution' = resolution
    /\ pc' = "idle"
    /\ UNCHANGED << isOpen, timers, image_counter, files, pub_cam_snapshot,
                    pub_cam_livestream, last >>

CaptureRestore ==
    /\ pc = "restore"
    /\ resolution' = LivestreamResolution
    /\ pc' = "idle"
    /\ UNCHANGED << isOpen, timers, image_counter, files, pub_cam_snapshot,
                    pub_cam_livestream, last >>

Next ==
    \/ \E data \in BOOLEAN : start_livestream_callback(data)
    \/ timer_callback
    \/ \E data \in BOOLEAN : CaptureBegin(data)
    \/ CaptureRead
    \/ CaptureWrite
    \/ CapturePublish
    \/ CaptureIncrement
    \/ CaptureEvict
    \/ CaptureRestore

Spec ==
    Init /\ [][Next]_vars

(***************************************************************************)
(* prevent_overflood_image on its own: any counter value, any directory   *)
(* content, the function applied once and then once more.                 *)
(***************************************************************************)
InitEvict ==
    /\ isOpen = TRUE
    /\ resolution = SnapshotResolution
    /\ timers = 0
    /\ image_counter \in 0..MaxImages
    /\ files \in SUBSET {ImagePath(i) : i \in 0..MaxDirImage}
    /\ pub_cam_snapshot = << >>
    /\ pub_cam_livestream = << >>
    /\ pc = "apply"
    /\ last = "none"

EvictApply ==
    /\ pc = "apply"
    /\ files' = prevent_overflood_image(image_counter, files)
    /\ pc' = "applied"
    /\ UNCHANGED << isOpen, resolution, timers, image_counter,
                    pub_cam_snapshot, pub_cam_livestream, last >>

EvictReapply ==
    /\ pc = "applied"
    /\ files' = prevent_overflood_image(image_counter, files)
    /\ pc' = "applied_twice"
    /\ UNCHANGED << isOpen, resolution, timers, image_counter,
                    pub_cam_snapshot, pub_cam_livestream, last >>

NextEvict ==
    \/ EvictApply
    \/ EvictReapply

SpecEvict ==
    InitEvict /\ [][NextEvict]_vars

TypeOK ==
    /\ isOpen \in BOOLEAN
    /\ resolution \in {PipelineResolution, LivestreamResolution, SnapshotResolution}
    /\ timers \in 0..(MaxTimers + 1)
    /\ image_counter \in 0..(MaxImages + 2)
    /\ pc \in {"idle", "read", "imwrite", "publish", "increment", "evict",
               "restore", "crashed"}
    /\ last \in {"none", "livestream_true", "livestream_false", "timer",
                 "snapshot_true", "snapshot_false"}

(***************************************************************************)
(* Vocabulary of the claims.                                               *)
(***************************************************************************)
(* the executor is between callbacks: the last handler has returned *)
Returned ==
    pc = "idle"

(* the step just taken belongs to a start_livestream_callback(FALSE) *)
LivestreamStopStep ==
    /\ last' = "livestream_false"
    /\ vars' # vars
    /\ pc = "idle"

(* the step just taken belongs to capture_snapshot_callback *)
SnapshotStep ==
    /\ last' \in {"snapshot_true", "snapshot_false"}
    /\ vars' # vars

(* image{lo}.jpg .. image{hi}.jpg *)
Images(lo, hi) ==
    {ImagePath(i) : i \in lo..hi}

(***************************************************************************)
(* C1: whatever livestream triggers arrive with the device open, at most   *)
(* one timer bound to timer_callback is alive in every reachable state.    *)
(***************************************************************************)
C1_AtMostOnePeriodicTask ==
    timers <= 1

(***************************************************************************)
(* C2: once a livestream trigger false has been handled with the device    *)
(* open, no timer is alive (so no livestream message follows the stop).    *)
(***************************************************************************)
C2_StopCancelsPeriodicTask ==
    (isOpen /\ last = "livestream_false" /\ Returned) => timers = 0

(***************************************************************************)
(* C3: a livestream trigger false handled while no timer is alive returns  *)
(* normally and leaves the timers, the counter, the files and the          *)
(* published messages as they were.                                        *)
(***************************************************************************)
C3_RedundantStopIsNoOp ==
    [][ (LivestreamStopStep /\ timers = 0)
          => /\ pc' = "idle"
             /\ timers' = 0
             /\ image_counter' = image_counter
             /\ files' = files
             /\ pub_cam_snapshot' = pub_cam_snapshot
             /\ pub_cam_livestream' = pub_cam_livestream ]_vars

C3_Witness ==
    /\ isOpen
    /\ last = "livestream_false"
    /\ Returned
    /\ timers = 0
    /\ image_counter > 0

(***************************************************************************)
(* C4: after n >= 6 successful captures from an empty directory exactly    *)
(* the five files image{n-5}.jpg .. image{n-1}.jpg are on disk.            *)
(***************************************************************************)
C4_FiveMostRecentRemain ==
    (Returned /\ image_counter >= 6)
        => /\ Cardinality(files) = 5
           /\ files = Images(image_counter - 5, image_counter - 1)

(***************************************************************************)
(* C5: eviction with a counter value of at most 5 deletes nothing, and     *)
(* with a counter value c > 5 it deletes image{c-5}.jpg.                   *)
(***************************************************************************)
C5_EvictionThreshold ==
    [][ (pc = "evict" /\ pc' = "restore")
          => IF image_counter <= 5
             THEN files' = files
             ELSE files' = files \ {ImagePath(image_counter - 5)} ]_vars

(***************************************************************************)
(* C6: the counter starts at 0, goes up by exactly 1 at the increment of   *)
(* every successful capture, one increment per published snapshot, and no  *)
(* other step changes it.                                                  *)
(***************************************************************************)
C6_CounterMonotone ==
    /\ image_counter = 0
    /\ [][ IF pc = "increment"
           THEN image_counter' = image_counter + 1
           ELSE image_counter' = image_counter ]_vars
    /\ [](Returned => image_counter = Len(pub_cam_snapshot))

C6_Witness ==
    /\ Returned
    /\ image_counter >= 2
    /\ timers > 0
    /\ Len(pub_cam_livestream) > 0

(***************************************************************************)
(* C7: with the capture not opened, no step of capture_snapshot_callback   *)
(* writes or deletes a file, changes the counter or publishes a snapshot.  *)
(***************************************************************************)
C7_UnavailableDeviceCapturesNothing ==
    [][ (SnapshotStep /\ ~isOpen)
          => /\ files' = files
             /\ image_counter' = image_counter
             /\ pub_cam_snapshot' = pub_cam_snapshot
             /\ pc' \notin {"read", "imwrite", "publish"} ]_vars

C7_Witness ==
    /\ ~isOpen
    /\ last \in {"snapshot_true", "snapshot_false"}
    /\ Returned

(***************************************************************************)
(* C8: a snapshot trigger with payload false reads no frame, writes and    *)
(* deletes no file, publishes nothing and leaves the counter unchanged.    *)
(***************************************************************************)
C8_FalsePayloadIsNoOp ==
    [][ (last' = "snapshot_false" /\ vars' # vars)
          => /\ files' = files
             /\ image_counter' = image_counter
             /\ pub_cam_snapshot' = pub_cam_snapshot
             /\ pc' # "read" ]_vars

(***************************************************************************)
(* C9: when capture_snapshot_callback has returned, after a capture or     *)
(* after an abort on an unopened device, with or without live timers, the  *)
(* resolution requested last is the livestream resolution.                 *)
(***************************************************************************)
C9_ResolutionRestored ==
    (last \in {"snapshot_true", "snapshot_false"} /\ Returned)
        => resolution = LivestreamResolution

C9_Witness ==
    /\ last \in {"snapshot_true", "snapshot_false"}
    /\ Returned
    /\ ~isOpen
    /\ timers = 0
    /\ resolution = LivestreamResolution

(***************************************************************************)
(* C10: from an empty directory, every reachable state, the one between    *)
(* imwrite and the eviction included, has at most 5 snapshot files.        *)
(***************************************************************************)
C10_AtMostFiveFiles ==
    Cardinality(files) <= 5

C10_Witness ==
    /\ pc \in {"publish", "increment", "evict"}
    /\ image_counter >= 5
    /\ Cardinality(files) = 5

(* the step just taken is a run of timer_callback *)
TickStep ==
    /\ last' = "timer"
    /\ vars' # vars
    /\ pc = "idle"

(* the step just taken is a run of start_livestream_callback *)
LivestreamStep ==
    /\ last' \in {"livestream_true", "livestream_false"}
    /\ vars' # vars
    /\ pc = "idle"

(***************************************************************************)
(* C11: the snapshot message published by a capture carries str(k) for the *)
(* counter value k of that capture, image{k}.jpg is on disk when it is     *)
(* published, the counter is incremented only afterwards and the eviction  *)
(* comes last; the i-th message carries str(i-1), so no two messages share *)
(* an identifier.                                                          *)
(***************************************************************************)
C11_SnapshotMessageMatchesFile ==
    /\ [][ pub_cam_snapshot' # pub_cam_snapshot
             => /\ pc = "publish"
                /\ pub_cam_snapshot' =
                      Append(pub_cam_snapshot, [frame_id |-> Str(image_counter)])
                /\ ImagePath(image_counter) \in files
                /\ image_counter' = image_counter
                /\ files' = files
                /\ pc' = "increment" ]_vars
    /\ [][ pc = "increment" => (pc' = "evict" /\ files' = files) ]_vars
    /\ [][ (files' # files /\ pc # "imwrite") => pc = "evict" ]_vars
    /\ [](\A i, j \in 1..Len(pub_cam_snapshot) :
             /\ pub_cam_snapshot[i].frame_id = Str(i - 1)
             /\ (i # j => pub_cam_snapshot[i].frame_id # pub_cam_snapshot[j].frame_id))

C11_Witness ==
    /\ pc = "increment"
    /\ Len(pub_cam_snapshot) = MaxImages
    /\ pub_cam_snapshot[MaxImages].frame_id = Str(image_counter)
    /\ ImagePath(image_counter) \in files

(***************************************************************************)
(* C12: a tick whose read succeeds publishes exactly one livestream        *)
(* message, with an empty frame_id, and nothing on the snapshot topic;     *)
(* only ticks publish on the livestream topic.                             *)
(***************************************************************************)
C12_OneFramePerTick ==
    /\ [][ (TickStep /\ pc' = "idle")
             => /\ pub_cam_livestream' =
                      Append(pub_cam_livestream, [frame_id |-> ""])
                /\ pub_cam_snapshot' = pub_cam_snapshot ]_vars
    /\ [][ pub_cam_livestream' # pub_cam_livestream
             => /\ TickStep
                /\ Len(pub_cam_livestream') = Len(pub_cam_livestream) + 1 ]_vars

C12_Witness ==
    /\ last = "timer"
    /\ Returned
    /\ Len(pub_cam_livestream) = MaxFrames
    /\ image_counter > 0

(***************************************************************************)
(* C13: a tick whose read fails publishes nothing, changes no state and    *)
(* returns normally, so that the executor goes on dispatching.             *)
(***************************************************************************)
C13_FailedTickReadIsSkipped ==
    [][ TickStep => pc' = "idle" ]_vars

(***************************************************************************)
(* C14: when the read inside a snapshot capture fails, nothing is          *)
(* published, the counter is unchanged, the handler raises nothing and     *)
(* goes on to restore the livestream resolution.                           *)
(***************************************************************************)
C14_FailedSnapshotReadIsSkipped ==
    [][ (pc = "read" /\ pc' # "imwrite")
          => /\ pc' = "restore"
             /\ image_counter' = image_counter
             /\ pub_cam_snapshot' = pub_cam_snapshot ]_vars

C17_TicksReadAtLivestreamResolution ==
    [][ TickStep => resolution = LivestreamResolution ]_vars

C17_Witness ==
    /\ last = "timer"
    /\ Returned
    /\ Len(pub_cam_livestream) > 0
    /\ image_counter > 0
    /\ resolution = LivestreamResolution

(***************************************************************************)
(* C18, as claimed: a trigger true with no timer alive and the device open *)
(* requests the livestream resolution and makes exactly one timer, and     *)
(* every tick from then on publishes a livestream frame.                   *)
(***************************************************************************)
C18_StartThenEveryTickPublishes ==
    /\ [][ (LivestreamStep /\ last' = "livestream_true" /\ isOpen /\ timers = 0)
             => (resolution' = LivestreamResolution /\ timers' = 1) ]_vars
    /\ [][ TickStep
             => Len(pub_cam_livestream') = Len(pub_cam_livestream) + 1 ]_vars

(***************************************************************************)
(* C18, amended: a trigger true with no timer alive and the device open    *)
(* requests the livestream resolution and makes exactly one timer, which   *)
(* keeps timer_callback enabled, and every tick from then on whose read    *)
(* succeeds publishes a livestream frame.                                  *)
(***************************************************************************)
C18_StartThenEveryGoodTickPublishes ==
    /\ [][ (LivestreamStep /\ last' = "livestream_true" /\ isOpen /\ timers = 0)
             => (resolution' = LivestreamResolution /\ timers' = 1) ]_vars
    /\ [][ (TickStep /\ pc' = "idle")
             => Len(pub_cam_livestream') = Len(pub_cam_livestream) + 1 ]_vars
    /\ []((Returned /\ timers > 0 /\ Len(pub_cam_livestream) < MaxFrames)
             => ENABLED timer_callback)

C18_Witness ==
    /\ isOpen
    /\ timers = 1
    /\ last = "timer"
    /\ Returned
    /\ Len(pub_cam_livestream) = MaxFrames
    /\ resolution = LivestreamResolution

(***************************************************************************)
(* C19: applying the eviction a second time with the same counter value    *)
(* changes nothing, and applying it when image{c-5}.jpg is absent changes  *)
(* nothing either.                                                         *)
(***************************************************************************)
C19_EvictionIdempotent ==
    /\ [][ pc = "applied" => files' = files ]_vars
    /\ [][ (pc = "apply" /\ (image_counter < 5
                               \/ ImagePath(image_counter - 5) \notin files))
             => files' = files ]_vars

C19_Witness ==
    /\ pc = "applied_twice"
    /\ image_counter > 5
    /\ ImagePath(image_counter - 5) \notin files
    /\ ImagePath(image_counter - 4) \in files
    /\ ImagePath(0) \in files

(***************************************************************************)
(* C20: no step of capture_snapshot_callback creates or cancels a timer,   *)
(* and no livestream trigger or tick changes the counter, the files on     *)
(* disk or the snapshot messages.                                          *)
(***************************************************************************)
C20_ModesDoNotDisturbEachOther ==
    /\ [][ SnapshotStep => timers' = timers ]_vars
    /\ [][ (LivestreamStep \/ TickStep)
             => /\ image_counter' = image_counter
                /\ files' = files
                /\ pub_cam_snapshot' = pub_cam_snapshot ]_vars

C20_Witness ==
    /\ last \in {"snapshot_true", "snapshot_false"}
    /\ Returned
    /\ timers > 0
    /\ image_counter > 0
    /\ Len(pub_cam_livestream) > 0

=============================================================================
